---- MODULE Spec2Model ----
(***************************************************************************)
(* Streaming consumers of buzzline-03-mcruz.                                *)
(*                                                                         *)
(*   csv_consumer_mcruz.py  : temperature readings, rolling stall          *)
(*                            detection, per-continent running average     *)
(*   json_consumer_mcruz.py : WNBA points-per-game readings, rolling       *)
(*                            hot-streak detection                         *)
(*                                                                         *)
(* One run executes one of the two programs (prog).  A Kafka message is    *)
(* modelled by what json.loads makes of it: text that does not decode,     *)
(* JSON that is not an object, or an object whose fields are null,         *)
(* a number, or a non-numeric value (a string).                            *)
(***************************************************************************)
EXTENDS Integers, Sequences, FiniteSets, TLC

\* ---------------------------------------------------------------- bounds
MaxMsgs == 3          \* messages consumed in one run
MaxWindow == 2        \* largest rolling window size taken from the environment
MaxVal == 2           \* numeric readings are 1..MaxVal
MaxThreshold == 1     \* stall thresholds are 0..MaxThreshold, hot 1..MaxThreshold+1

\* ---------------------------------------------------------------- values
None == [tag |-> "none", n |-> 0]
NonNumeric == [tag |-> "str", n |-> 0]
Num(x) == [tag |-> "num", n |-> x]
Numbers == {Num(x) : x \in 1..MaxVal}
Values == {None, NonNumeric} \cup Numbers

IsNumber(v) == v.tag = "num"

Continents == {"Asia", "Europe"}
\* a continent field: absent/null, the empty string, or a name
ContinentFields == {"<none>", ""} \cup Continents
Truthy(continent) == continent \in Continents

Players == {"Wilson", "Stewart"}
PlayerFields == {"<none>"} \cup Players

Undecodable == [kind |-> "undecodable", temperature |-> None, ppg |-> None,
                timestamp |-> "<none>", continent |-> "<none>", player |-> "<none>"]
NotAnObject == [kind |-> "nondict", temperature |-> None, ppg |-> None,
                timestamp |-> "<none>", continent |-> "<none>", player |-> "<none>"]

CsvMessages ==
    {Undecodable, NotAnObject} \cup
    [kind : {"dict"}, temperature : Values, ppg : {None},
     timestamp : {"<none>", "ts"}, continent : ContinentFields, player : {"<none>"}]

JsonMessages ==
    {Undecodable, NotAnObject} \cup
    [kind : {"dict"}, temperature : {None}, ppg : Values,
     timestamp : {"<none>", "ts"}, continent : {"<none>"}, player : PlayerFields]

NoMessage == [kind |-> "<start>", temperature |-> None, ppg |-> None,
              timestamp |-> "<none>", continent |-> "<none>", player |-> "<none>"]

\* ---------------------------------------------------------------- state
VARIABLES
    prog,             \* "csv" or "json": which consumer this run is
    pc,               \* main(): "polling" inside the for loop, "closed" after finally
    closed_by,        \* why the loop was left
    window_size,      \* get_rolling_window_size()
    stall_threshold,  \* get_stall_threshold()
    hot_threshold,    \* get_hot_threshold()
    rolling_window,   \* deque(maxlen=window_size)
    continent_stats,  \* defaultdict: continent -> [count, sum_temp]
    offset,           \* number of messages taken from the consumer
    message_str,      \* the message handed to the last process_message call
    events,           \* log events of the last process_message call, in order
    avg_temp,         \* last [Continent Avg] value logged, as sum_temp/count
    raised,           \* the exception the last process_message call caught
    pushed,           \* history: values of the records that passed validation
    seen,             \* history: per continent, how many of those records carried it
                      \*          (count), how many with a number (numeric), their sum
    prev_entry,       \* history: the last record's continent entry before that record
    streak            \* history: consecutive records that logged a detection

vars == <<prog, pc, closed_by, window_size, stall_threshold, hot_threshold,
          rolling_window, continent_stats, offset, message_str, events,
          avg_temp, raised, pushed, seen, prev_entry, streak>>

\* ---------------------------------------------------------------- helpers
RECURSIVE SeqSum(_)
SeqSum(s) == IF s = <<>> THEN 0 ELSE Head(s).n + SeqSum(Tail(s))

RECURSIVE SeqMax(_)
SeqMax(s) == IF Len(s) = 1 THEN Head(s).n
             ELSE LET m == SeqMax(Tail(s)) IN IF Head(s).n > m THEN Head(s).n ELSE m

RECURSIVE SeqMin(_)
SeqMin(s) == IF Len(s) = 1 THEN Head(s).n
             ELSE LET m == SeqMin(Tail(s)) IN IF Head(s).n < m THEN Head(s).n ELSE m

AllNumbers(s) == \A i \in 1..Len(s) : IsNumber(s[i])

\* an append that never drops anything
deque_append_noevict(dq, v, maxlen) == Append(dq, v)

\* a tumbling window: an append onto a full window starts it over
deque_append_reset(dq, v, maxlen) ==
    IF Len(dq) >= maxlen THEN <<v>> ELSE Append(dq, v)

\* deque(maxlen=N).append(v): the oldest element is dropped when full
deque_append(dq, v, maxlen) ==
    IF maxlen = 0 THEN dq
    ELSE IF Len(dq) = maxlen THEN Append(Tail(dq), v)
    ELSE Append(dq, v)

\* ---------------------------------------------------------------- csv consumer
\* detect_stall with the comparison against the threshold made strict
detect_stall_strict(dq, WINDOW_SIZE, threshold) ==
    IF Len(dq) < WINDOW_SIZE THEN "False"
    ELSE IF Len(dq) = 0 THEN "ValueError"
    ELSE IF ~AllNumbers(dq) THEN "TypeError"
    ELSE IF SeqMax(dq) - SeqMin(dq) < threshold THEN "True" ELSE "False"

\* detect_stall that only waits for a non-empty window
detect_stall_nonempty(dq, WINDOW_SIZE, threshold) ==
    IF Len(dq) = 0 THEN "False"
    ELSE IF ~AllNumbers(dq) THEN "TypeError"
    ELSE IF SeqMax(dq) - SeqMin(dq) <= threshold THEN "True" ELSE "False"

\* detect_stall: "False" while the window is short; max() raises ValueError
\* on an empty deque; max()/min()/"-" raise TypeError on a non-numeric
\* element; otherwise range <= threshold
detect_stall(dq, WINDOW_SIZE, threshold) ==
    IF Len(dq) < WINDOW_SIZE THEN "False"
    ELSE IF Len(dq) = 0 THEN "ValueError"
    ELSE IF ~AllNumbers(dq) THEN "TypeError"
    ELSE IF SeqMax(dq) - SeqMin(dq) <= threshold THEN "True" ELSE "False"

\* validation that forgets the timestamp
csv_invalid_value_only(temperature, timestamp) == temperature = None

\* "if temperature is None or timestamp is None"
csv_invalid(temperature, timestamp) == temperature = None \/ timestamp = "<none>"

NoAvg == [num |-> 0, den |-> 0]
NewEntry == [count |-> 0, sum_temp |-> 0]

\* a lookup that rebuilds the dict around the one continent asked for
defaultdict_fresh(stats, continent) ==
    [c \in {continent} |-> IF c \in DOMAIN stats THEN stats[c] ELSE NewEntry]

\* continent_stats[continent] on a defaultdict: the entry, created when missing
defaultdict_get(stats, continent) ==
    IF continent \in DOMAIN stats THEN stats
    ELSE [c \in DOMAIN stats \cup {continent} |->
             IF c = continent THEN NewEntry ELSE stats[c]]

\* what a run of the try block leaves: exc is the exception it raised, caught
\* the exception an except clause handled
Result(dq, stats, ev, avg, exc) ==
    [rolling_window |-> dq, continent_stats |-> stats, events |-> ev,
     avg_temp |-> avg, exc |-> exc, caught |-> "none"]

\* a count that is not incremented
count_unchanged(count) == count

\* stats["count"] += 1
count_plus_one(count) == count + 1

\* stats["sum_temp"] / stats["count"]: the quotient as a fraction, or the
\* ZeroDivisionError of a zero count
average(entry) ==
    IF entry.count = 0 THEN [num |-> 0, den |-> 0, exc |-> "ZeroDivisionError"]
    ELSE [num |-> entry.sum_temp, den |-> entry.count, exc |-> "none"]

\* the try block of process_message (csv), up to the exception it raises
csv_try_body(msg, dq, ws, stats, threshold) ==
    IF msg.kind = "undecodable" THEN Result(dq, stats, <<>>, NoAvg, "JSONDecodeError")
    ELSE IF msg.kind = "nondict" THEN Result(dq, stats, <<>>, NoAvg, "AttributeError")
    ELSE IF csv_invalid(msg.temperature, msg.timestamp)
         THEN Result(dq, stats, <<"Invalid">>, NoAvg, "none")
    ELSE
      LET dq1 == deque_append(dq, msg.temperature, ws)
          stalled == detect_stall(dq1, ws, threshold)
          ev1 == IF stalled = "True" THEN <<"StallDetected">> ELSE <<>>
      IN IF stalled \in {"TypeError", "ValueError"}
         THEN Result(dq1, stats, <<>>, NoAvg, stalled)
         ELSE IF ~Truthy(msg.continent) THEN Result(dq1, stats, ev1, NoAvg, "none")
         ELSE
           LET stats1 == defaultdict_get(stats, msg.continent)
               stats2 == [stats1 EXCEPT ![msg.continent].count = count_plus_one(@)]
               stats3 == [stats2 EXCEPT ![msg.continent].sum_temp = @ + msg.temperature.n]
               avg == average(stats3[msg.continent])
           IN IF ~IsNumber(msg.temperature)
              THEN Result(dq1, stats2, ev1, NoAvg, "TypeError")
              ELSE IF avg.exc # "none"
              THEN Result(dq1, stats3, ev1, NoAvg, avg.exc)
              ELSE Result(dq1, stats3, Append(ev1, "ContinentAvg"),
                          [num |-> avg.num, den |-> avg.den], "none")

\* handlers that only catch json.JSONDecodeError
except_clauses_decode_only(r) ==
    IF r.exc = "JSONDecodeError"
    THEN [r EXCEPT !.events = Append(@, "DecodeError"), !.exc = "none",
                   !.caught = r.exc]
    ELSE r

\* handlers without the json.JSONDecodeError clause and with a narrower
\* second clause, so a decoding error leaves process_message
except_clauses_decode_escapes(r) ==
    IF r.exc \in {"none", "JSONDecodeError"} THEN r
    ELSE [r EXCEPT !.events = Append(@, "Error"), !.exc = "none",
                   !.caught = r.exc]

\* "except json.JSONDecodeError" then "except Exception": both log and return
except_clauses(r) ==
    IF r.exc = "none" THEN r
    ELSE IF r.exc = "JSONDecodeError"
    THEN [r EXCEPT !.events = Append(@, "DecodeError"), !.exc = "none",
                   !.caught = r.exc]
    ELSE [r EXCEPT !.events = Append(@, "Error"), !.exc = "none",
                   !.caught = r.exc]

csv_process_message(msg, dq, ws, stats, threshold) ==
    except_clauses(csv_try_body(msg, dq, ws, stats, threshold))

\* ---------------------------------------------------------------- json consumer
\* detect_hot_streak with a strict comparison
detect_hot_streak_strict(dq, threshold) ==
    IF Len(dq) = 0 THEN "False"
    ELSE IF ~AllNumbers(dq) THEN "TypeError"
    ELSE IF SeqSum(dq) > threshold * Len(dq) THEN "True" ELSE "False"

\* detect_hot_streak: "False" on an empty window; sum() raises TypeError on a
\* non-numeric element; otherwise sum/len >= threshold (len > 0, so the
\* quotient is compared by cross-multiplying)
detect_hot_streak(dq, threshold) ==
    IF Len(dq) = 0 THEN "False"
    ELSE IF ~AllNumbers(dq) THEN "TypeError"
    ELSE IF SeqSum(dq) >= threshold * Len(dq) THEN "True" ELSE "False"

\* a caller that evaluates the detector on any non-empty window
window_nonempty(dq, ws) == Len(dq) > 0

\* "if len(rolling_window) == window_size"
window_full(dq, ws) == Len(dq) = ws

\* validation that only lets one player through
json_invalid_one_player(player, ppg, timestamp) ==
    player # "Wilson" \/ ppg = None \/ timestamp = "<none>"

\* "if player is None or ppg is None or timestamp is None"
json_invalid(player, ppg, timestamp) ==
    player = "<none>" \/ ppg = None \/ timestamp = "<none>"

\* the try block of process_message (json)
json_try_body(msg, dq, ws, threshold) ==
    IF msg.kind = "undecodable" THEN Result(dq, <<>>, <<>>, NoAvg, "JSONDecodeError")
    ELSE IF msg.kind = "nondict" THEN Result(dq, <<>>, <<>>, NoAvg, "AttributeError")
    ELSE IF json_invalid(msg.player, msg.ppg, msg.timestamp)
         THEN Result(dq, <<>>, <<"Invalid">>, NoAvg, "none")
    ELSE
      LET dq1 == deque_append(dq, msg.ppg, ws)
      IN IF ~window_full(dq1, ws) THEN Result(dq1, <<>>, <<>>, NoAvg, "none")
         ELSE LET hot == detect_hot_streak(dq1, threshold)
              IN IF hot = "TypeError" THEN Result(dq1, <<>>, <<>>, NoAvg, "TypeError")
                 ELSE IF hot = "True"
                      THEN Result(dq1, <<>>, <<"HotStreakDetected">>, NoAvg, "none")
                      ELSE Result(dq1, <<>>, <<>>, NoAvg, "none")

json_process_message(msg, dq, ws, threshold) ==
    except_clauses(json_try_body(msg, dq, ws, threshold))

\* ---------------------------------------------------------------- main()
EmptyStats == [c \in {} |-> NewEntry]
NothingSeen == [c \in Continents |-> [count |-> 0, numeric |-> 0, sum_temp |-> 0]]

Init ==
    /\ prog \in {"csv", "json"}
    /\ pc = "polling"
    /\ closed_by = "none"
    /\ window_size \in 1..MaxWindow
    /\ stall_threshold \in (IF prog = "csv" THEN 0..MaxThreshold ELSE {0})
    /\ hot_threshold \in (IF prog = "json" THEN 1..(MaxThreshold + 1) ELSE {0})
    /\ rolling_window = <<>>
    /\ continent_stats = EmptyStats
    /\ offset = 0
    /\ message_str = NoMessage
    /\ events = <<>>
    /\ avg_temp = NoAvg
    /\ raised = "none"
    /\ pushed = <<>>
    /\ seen = NothingSeen
    /\ prev_entry = NewEntry
    /\ streak = 0

\* what "a record that passes validation" means, read off the message alone
CsvValid(msg) == msg.kind = "dict" /\ msg.temperature # None /\ msg.timestamp # "<none>"
JsonValid(msg) == /\ msg.kind = "dict" /\ msg.ppg # None
                  /\ msg.timestamp # "<none>" /\ msg.player # "<none>"
Valid(msg) == IF prog = "csv" THEN CsvValid(msg) ELSE JsonValid(msg)
Reading(msg) == IF prog = "csv" THEN msg.temperature ELSE msg.ppg

Detected(ev) == \E i \in 1..Len(ev) : ev[i] \in {"StallDetected", "HotStreakDetected"}

\* bookkeeping shared by both loops: the state a process_message call leaves,
\* and the loop continuing unless the call itself raised
Consume(msg, r, valid, value) ==
    /\ rolling_window' = r.rolling_window
    /\ continent_stats' = r.continent_stats
    /\ events' = r.events
    /\ avg_temp' = r.avg_temp
    /\ raised' = r.caught
    /\ message_str' = msg
    /\ offset' = offset + 1
    /\ pc' = IF r.exc = "none" THEN "polling" ELSE "closed"
    /\ closed_by' = IF r.exc = "none" THEN "none" ELSE "record_error"
    /\ pushed' = IF valid THEN Append(pushed, value) ELSE pushed
    /\ seen' = IF valid /\ Truthy(msg.continent)
               THEN [seen EXCEPT ![msg.continent].count = @ + 1,
                                 ![msg.continent].numeric =
                                     IF IsNumber(value) THEN @ + 1 ELSE @,
                                 ![msg.continent].sum_temp = @ + value.n]
               ELSE seen
    /\ prev_entry' = IF msg.continent \in DOMAIN continent_stats
                     THEN continent_stats[msg.continent] ELSE NewEntry
    /\ streak' = IF Detected(r.events) THEN streak + 1 ELSE 0
    /\ UNCHANGED <<prog, window_size, stall_threshold, hot_threshold>>

\* csv main(): for message in consumer: process_message(...)
CsvConsume(msg) ==
    /\ prog = "csv" /\ pc = "polling" /\ offset < MaxMsgs
    /\ Consume(msg,
               csv_process_message(msg, rolling_window, window_size,
                                   continent_stats, stall_threshold),
               CsvValid(msg), msg.temperature)

\* json main(): for message in consumer: process_message(...)
JsonConsume(msg) ==
    /\ prog = "json" /\ pc = "polling" /\ offset < MaxMsgs
    /\ Consume(msg,
               json_process_message(msg, rolling_window, window_size, hot_threshold),
               JsonValid(msg), msg.ppg)

Close(why) ==
    /\ pc = "polling"
    /\ pc' = "closed"
    /\ closed_by' = why
    /\ UNCHANGED <<prog, window_size, stall_threshold, hot_threshold, rolling_window,
                   continent_stats, offset, message_str, events, avg_temp,
                   raised, pushed, seen, prev_entry, streak>>

\* except KeyboardInterrupt ... finally: consumer.close()
KeyboardInterrupt == Close("interrupt")

\* the consumer iterator itself raises ... finally: consumer.close()
ConsumerError == Close("consumer_error")

Next ==
    \/ \E msg \in CsvMessages : CsvConsume(msg)
    \/ \E msg \in JsonMessages : JsonConsume(msg)
    \/ KeyboardInterrupt
    \/ ConsumerError

Spec == Init /\ [][Next]_vars

TypeOK ==
    /\ Len(rolling_window) <= window_size
    /\ offset \in 0..MaxMsgs

\* ---------------------------------------------------------------- properties
LastN(s, k) == SubSeq(s, Len(s) - k + 1, Len(s))
MinOf(a, b) == IF a < b THEN a ELSE b

IsFull(dq) == Len(dq) = window_size
RangeWithin(dq, t) == \A i, j \in 1..Len(dq) : dq[i].n - dq[j].n <= t
MeanAtLeast(dq, t) == SeqSum(dq) >= t * Len(dq)
StallCondition(dq) == IsFull(dq) /\ AllNumbers(dq) /\ RangeWithin(dq, stall_threshold)
HotCondition(dq) == IsFull(dq) /\ AllNumbers(dq) /\ MeanAtLeast(dq, hot_threshold)
Emitted(ev, name) == \E i \in 1..Len(ev) : ev[i] = name
Consumed == offset' = offset + 1

\* C1: the rolling window is exactly the values of the last min(N, k) records
\* that passed validation, in arrival order, so it never holds more than N;
\* a push onto a full window drops exactly the oldest value.
C1_WindowIsLastN ==
    /\ [](/\ Len(rolling_window) <= window_size
          /\ rolling_window = LastN(pushed, MinOf(window_size, Len(pushed))))
    /\ [][(Consumed /\ Valid(message_str') /\ Len(rolling_window) = window_size)
            => rolling_window' = Append(Tail(rolling_window), Reading(message_str'))]_vars

C1_Witness ==
    /\ window_size >= 2
    /\ Len(pushed) > window_size
    /\ rolling_window[1] # rolling_window[2]
    /\ pushed[1] # rolling_window[1]

\* C2: detect_stall returns true iff the window is full and max - min <= T_stall;
\* with T_stall = 0 it returns true only when all N values are equal.
C2_StallIff ==
    prog = "csv" =>
        LET r == detect_stall(rolling_window, window_size, stall_threshold)
        IN /\ (r = "True") <=> StallCondition(rolling_window)
           /\ (r = "True" /\ stall_threshold = 0) =>
                 /\ Len(rolling_window) = window_size
                 /\ \A i \in 1..Len(rolling_window) : rolling_window[i] = rolling_window[1]

C2_Witness ==
    /\ prog = "csv" /\ window_size >= 2 /\ stall_threshold = 0
    /\ detect_stall(rolling_window, window_size, stall_threshold) = "True"

\* C3 as stated: detect_hot_streak returns true iff the window is full and its
\* mean is >= T_hot.
C3_HotIffFull ==
    prog = "json" =>
        ((detect_hot_streak(rolling_window, hot_threshold) = "True")
            <=> HotCondition(rolling_window))

\* C3 amended: detect_hot_streak returns true iff the window is non-empty and
\* its mean is >= T_hot, full or not.
C3_HotIffNonEmpty ==
    prog = "json" =>
        ((detect_hot_streak(rolling_window, hot_threshold) = "True")
            <=> /\ Len(rolling_window) > 0
                /\ AllNumbers(rolling_window)
                /\ MeanAtLeast(rolling_window, hot_threshold))

C3_Witness ==
    /\ prog = "json"
    /\ 0 < Len(rolling_window) /\ Len(rolling_window) < window_size
    /\ detect_hot_streak(rolling_window, hot_threshold) = "True"

\* C4: a decoded record whose value or timestamp is missing or null logs
\* Invalid and leaves the window and every aggregate entry as they were.
MissingField(msg) ==
    msg.kind = "dict" /\ (Reading(msg) = None \/ msg.timestamp = "<none>")

C4_InvalidIsFrameFree ==
    [][(Consumed /\ MissingField(message_str'))
         => /\ events' = <<"Invalid">>
            /\ rolling_window' = rolling_window
            /\ continent_stats' = continent_stats]_vars

C4_Witness ==
    /\ offset > 1 /\ MissingField(message_str) /\ events = <<"Invalid">>
    /\ rolling_window # <<>>
    /\ prog = "csv" => DOMAIN continent_stats # {}

\* C5: for every continent the aggregator holds the number and the sum of the
\* valid records that carried it, an entry exists exactly for the continents
\* seen, and the average logged after a record is sum/count including it.
\* "Valid" is read either way: passed validation, or also carried a number.
AggregatesMatch(counted(_)) ==
    \A c \in Continents :
        /\ (c \in DOMAIN continent_stats) <=> (counted(c) > 0)
        /\ c \in DOMAIN continent_stats =>
              /\ continent_stats[c].count = counted(c)
              /\ continent_stats[c].sum_temp = seen[c].sum_temp

C5_AggregatesExact ==
    prog = "csv" =>
        /\ \/ LET passed(c) == seen[c].count IN AggregatesMatch(passed)
           \/ LET numeric(c) == seen[c].numeric IN AggregatesMatch(numeric)
        /\ (offset > 0 /\ CsvValid(message_str) /\ IsNumber(message_str.temperature)
              /\ Truthy(message_str.continent))
             => /\ Emitted(events, "ContinentAvg")
                /\ avg_temp = [num |-> seen[message_str.continent].sum_temp,
                               den |-> seen[message_str.continent].numeric]

\* C6: no stall is reported, and detect_stall is false, while fewer than N
\* readings have been pushed.
C6_NoStallBeforeFull ==
    (prog = "csv" /\ Len(pushed) < window_size) =>
        /\ ~Emitted(events, "StallDetected")
        /\ detect_stall(rolling_window, window_size, stall_threshold) = "False"

C6_Witness ==
    /\ prog = "csv" /\ CsvValid(message_str)
    /\ 0 < Len(pushed) /\ Len(pushed) < window_size
    /\ AllNumbers(rolling_window) /\ RangeWithin(rolling_window, stall_threshold)

\* C7: no hot streak is reported for a record processed while the window
\* holds fewer than N values.
C7_NoHotStreakBeforeFull ==
    (prog = "json" /\ Len(rolling_window) < window_size) =>
        ~Emitted(events, "HotStreakDetected")

C7_Witness ==
    /\ prog = "json" /\ JsonValid(message_str)
    /\ 0 < Len(rolling_window) /\ Len(rolling_window) < window_size
    /\ AllNumbers(rolling_window) /\ MeanAtLeast(rolling_window, hot_threshold)

\* C8: after every record that passed validation, exactly one detection event
\* was logged if the detector's condition holds on the window that now
\* contains the record's value, and none otherwise; a record that keeps the
\* condition true is reported again.
Condition(dq) == IF prog = "csv" THEN StallCondition(dq) ELSE HotCondition(dq)
Detections(ev) == {i \in 1..Len(ev) : ev[i] \in {"StallDetected", "HotStreakDetected"}}

C8_EmitWheneverConditionHolds ==
    /\ []((offset > 0 /\ Valid(message_str)) =>
            /\ Condition(rolling_window) => Cardinality(Detections(events)) = 1
            /\ ~Condition(rolling_window) => Detections(events) = {})
    /\ [][(Consumed /\ Valid(message_str') /\ Detected(events)
             /\ Condition(rolling_window')) => Detected(events')]_vars

C8_Witness ==
    /\ streak >= 2 /\ window_size >= 2 /\ Valid(message_str)
    /\ Condition(rolling_window)

\* C9: a valid record processed twice in a row is pushed twice and, when it
\* carries a continent, counted twice and added to the sum twice.
ReplayOfValid ==
    /\ Consumed /\ offset >= 1
    /\ message_str' = message_str
    /\ Valid(message_str) /\ IsNumber(Reading(message_str))

C9_ReplayCountsTwice ==
    [][ReplayOfValid =>
         /\ Len(pushed') = Len(pushed) + 1
         /\ rolling_window' = deque_append(rolling_window, Reading(message_str), window_size)
         /\ rolling_window'[Len(rolling_window')] = Reading(message_str)
         /\ window_size >= 2 =>
               rolling_window'[Len(rolling_window') - 1] = Reading(message_str)
         /\ (prog = "csv" /\ Truthy(message_str.continent)) =>
               /\ message_str.continent \in DOMAIN continent_stats'
               /\ continent_stats'[message_str.continent].count = prev_entry.count + 2
               /\ continent_stats'[message_str.continent].sum_temp =
                      prev_entry.sum_temp + 2 * message_str.temperature.n]_vars

\* C10: a record that fails to decode, fails validation or raises inside
\* process_message never ends the loop: the call returns, the loop is still
\* polling, and the next record can be taken.
ErrorOutcome(ev) == ev # <<>> /\ ev[Len(ev)] \in {"Invalid", "DecodeError", "Error"}

C10_ErrorsAreContained ==
    /\ [](closed_by # "record_error")
    /\ [][Consumed => /\ pc' = "polling"
                      /\ (~Valid(message_str') => ErrorOutcome(events'))]_vars
    /\ []((pc = "polling" /\ offset < MaxMsgs) =>
             ENABLED (\/ \E msg \in CsvMessages : CsvConsume(msg)
                      \/ \E msg \in JsonMessages : JsonConsume(msg)))

C10_Witness ==
    /\ pc = "polling" /\ offset > Len(pushed) /\ Len(pushed) >= 2
    /\ ~AllNumbers(pushed)
    /\ Valid(message_str) /\ ~ErrorOutcome(events) /\ events # <<>>

\* C11: a message that does not decode as JSON is logged and dropped: nothing
\* is pushed, no aggregate changes, no detection is logged, and the loop goes
\* on to the next message.
ConsumeEnabled ==
    ENABLED (\/ \E msg \in CsvMessages : CsvConsume(msg)
             \/ \E msg \in JsonMessages : JsonConsume(msg))

C11_UndecodableIsDiscarded ==
    /\ [][(Consumed /\ message_str'.kind = "undecodable")
            => /\ events' = <<"DecodeError">>
               /\ rolling_window' = rolling_window
               /\ continent_stats' = continent_stats
               /\ avg_temp' = NoAvg
               /\ pc' = "polling"]_vars
    /\ []((message_str.kind = "undecodable" /\ closed_by = "none" /\ offset < MaxMsgs)
             => ConsumeEnabled)

C11_Witness ==
    /\ message_str.kind = "undecodable" /\ events = <<"DecodeError">>
    /\ pc = "polling" /\ offset < MaxMsgs
    /\ rolling_window # <<>>
    /\ prog = "csv" => DOMAIN continent_stats # {}

\* C12: the detector's state is a function of the current window only.  It is
\* INSUFFICIENT_DATA exactly while the window is short and never returns to
\* it; after every record that passed validation it is TRIGGERED iff the
\* condition holds on the current window and NORMAL otherwise, whatever was
\* reported before, so a TRIGGERED detector is NORMAL after the first record
\* that makes the condition false.
DetectorState ==
    IF Len(rolling_window) < window_size THEN "INSUFFICIENT_DATA"
    ELSE IF Detected(events) THEN "TRIGGERED" ELSE "NORMAL"

StateOfWindow(dq) ==
    IF ~IsFull(dq) THEN "INSUFFICIENT_DATA"
    ELSE IF Condition(dq) THEN "TRIGGERED" ELSE "NORMAL"

C12_DetectorNotSticky ==
    /\ []((offset > 0 /\ Valid(message_str)) => DetectorState = StateOfWindow(rolling_window))
    /\ [][DetectorState # "INSUFFICIENT_DATA" => DetectorState' # "INSUFFICIENT_DATA"]_vars
    /\ [][(Consumed /\ Valid(message_str') /\ DetectorState = "TRIGGERED"
             /\ ~Condition(rolling_window')) => DetectorState' = "NORMAL"]_vars

C12_Witness ==
    /\ Len(pushed) > window_size /\ window_size >= 2
    /\ Valid(message_str) /\ AllNumbers(rolling_window)
    /\ Condition(LastN(SubSeq(pushed, 1, Len(pushed) - 1), window_size))
    /\ ~Condition(rolling_window)
    /\ DetectorState = "NORMAL"

\* C13: with N >= 1 nothing is computed on empty state: max/min and the mean
\* are only taken of a non-empty window and an average is only taken of an
\* entry whose count is positive, so no empty-window error and no division
\* by zero is ever raised.
C13_NoComputeOnEmpty ==
    /\ raised \notin {"ValueError", "ZeroDivisionError"}
    /\ Detected(events) => rolling_window # <<>>
    /\ Emitted(events, "ContinentAvg") => avg_temp.den > 0
    /\ prog = "csv" =>
          detect_stall(rolling_window, window_size, stall_threshold) # "ValueError"
    /\ \A c \in DOMAIN continent_stats : continent_stats[c].count > 0

C13_Witness ==
    /\ prog = "csv" /\ window_size = 1
    /\ events = <<"StallDetected", "ContinentAvg">>
    /\ avg_temp.den = 1 /\ Len(pushed) = 1

\* C14: one window serves every grouping key.  What is reported after a
\* record that passed validation is decided by the values of the records that
\* passed validation so far, and the same record under any other continent
\* (csv) or player (json) leaves the same window and the same report.
Relabelled(msg) ==
    IF prog = "csv" THEN {[msg EXCEPT !.continent = c] : c \in ContinentFields}
    ELSE {[msg EXCEPT !.player = p] : p \in Players}

Processed(msg) ==
    IF prog = "csv"
    THEN csv_process_message(msg, rolling_window, window_size, continent_stats,
                             stall_threshold)
    ELSE json_process_message(msg, rolling_window, window_size, hot_threshold)

C14_OneSharedWindow ==
    /\ []((offset > 0 /\ Valid(message_str)) =>
            (Detected(events) <=>
                Condition(LastN(pushed, MinOf(window_size, Len(pushed))))))
    /\ [][(Consumed /\ Valid(message_str')) =>
            \A other \in Relabelled(message_str') :
                /\ Processed(other).rolling_window = rolling_window'
                /\ Detections(Processed(other).events) = Detections(events')]_vars

C14_Witness ==
    /\ prog = "csv" /\ window_size = 2 /\ Len(pushed) = 2
    /\ seen["Asia"].count = 1 /\ seen["Europe"].count = 1
    /\ CsvValid(message_str) /\ Emitted(events, "StallDetected")

\* C15: a record that passed validation and carries a continent changes no
\* other continent's entry; one without a continent (absent, null or empty)
\* is pushed into the window and changes or creates no entry; entries are
\* never removed and counts never decrease.
C15_AggregateFrame ==
    [][(Consumed /\ prog = "csv") =>
         LET msg == message_str' IN
         /\ (CsvValid(msg) /\ Truthy(msg.continent)) =>
               \A c \in Continents \ {msg.continent} :
                   /\ (c \in DOMAIN continent_stats') <=> (c \in DOMAIN continent_stats)
                   /\ c \in DOMAIN continent_stats => continent_stats'[c] = continent_stats[c]
         /\ (CsvValid(msg) /\ ~Truthy(msg.continent)) =>
               /\ continent_stats' = continent_stats
               /\ rolling_window' # <<>>
               /\ rolling_window'[Len(rolling_window')] = msg.temperature
         /\ DOMAIN continent_stats' \subseteq Continents
         /\ \A c \in DOMAIN continent_stats :
               /\ c \in DOMAIN continent_stats'
               /\ continent_stats'[c].count >= continent_stats[c].count]_vars

C15_Witness ==
    /\ prog = "csv" /\ CsvValid(message_str) /\ message_str.continent = ""
    /\ DOMAIN continent_stats = Continents
    /\ rolling_window[Len(rolling_window)] = message_str.temperature

\* C16: a continent's count and sum are updated together or not at all: a
\* step either leaves both as they were or adds one to the count and the
\* record's numeric value to the sum, also when the step raises.
EntryOf(stats, c) == IF c \in DOMAIN stats THEN stats[c] ELSE NewEntry

C16_CountAndSumTogether ==
    [][(Consumed /\ prog = "csv") =>
         \A c \in Continents :
             LET old == EntryOf(continent_stats, c)
                 new == EntryOf(continent_stats', c)
             IN \/ new = old
                \/ /\ IsNumber(message_str'.temperature)
                   /\ new.count = old.count + 1
                   /\ new.sum_temp = old.sum_temp + message_str'.temperature.n]_vars

\* C17: the window only ever holds numbers, so a record that carries a number
\* and passes validation is never the victim of an earlier non-numeric value.
C17_WindowIsNumeric ==
    /\ AllNumbers(rolling_window)
    /\ (offset > 0 /\ Valid(message_str) /\ IsNumber(Reading(message_str)))
          => raised = "none"

====
